---------------------------- MODULE Spec2Model ----------------------------
(***************************************************************************)
(* Model of the evolutionary-mcp backend: the append-only workflow ledger  *)
(* (PostgresMemoryStore.CreateWorkflow / ListWorkflows over the workflows  *)
(* table and its two unique indexes), the memory store and its feedback    *)
(* path (MemoryService.GiveFeedback over Get / Update), and tenant         *)
(* resolution in the RequireAuth middleware (GetTenantByDomain /           *)
(* CreateTenant over the tenants table).                                   *)
(*                                                                         *)
(* The database is PostgreSQL at its default isolation level (READ         *)
(* COMMITTED): a statement sees the rows committed before it started plus  *)
(* the changes of its own transaction; an UPDATE that meets a row locked   *)
(* by another transaction waits for it and then re-checks its WHERE        *)
(* clause on the row's newest version; a unique index makes an INSERT wait *)
(* for an in-progress transaction that holds a conflicting entry.          *)
(***************************************************************************)
EXTENDS Integers, Sequences, FiniteSets, TLC

VARIABLES
    workflows,         \* the workflows table: rows, with who inserted / retired them and has not committed yet
    calls,             \* CreateWorkflow calls in flight: slot -> position, workflow struct, locals
    returned,          \* the error of the CreateWorkflow call that returned last ("" = nil)
    workflowsCreated,  \* the workflows_created_total counter
    memories,          \* the memories table
    feedbacks,         \* GiveFeedback calls in flight: slot -> position, arguments, the memory read
    produced,          \* history: memory id -> confidence values produced for it, in the order applied
    owner,             \* history: memory id -> the tenant whose request stored it
    result,            \* the text of the memory tool result handed back last
    recalled,          \* the last recall: the tenant id of its context, the memories returned
    config,            \* the application configuration the server was started with
    auth,              \* the Auth object built by auth.New
    presented,         \* the request under examination, where one request is followed
    mcpReached,        \* whether a request was handed to the MCP handlers
    tenants,           \* the tenants table
    requests,          \* RequireAuth invocations in flight: slot -> position, domain
    response,          \* what the middleware did last: status, domain, tenant id passed on, error
    cookies,           \* the cookies the login handlers have set in the browser
    answer,            \* what a login handler answered last, and the request it answered
    seed               \* the seed program: where it is, its locals, how its last run ended

vars == <<workflows, calls, returned, workflowsCreated, memories, feedbacks,
          produced, owner, result, recalled, config, auth, presented, mcpReached, tenants,
          requests, response, cookies, answer, seed>>

wfVars == <<workflows, calls, returned, workflowsCreated>>
memVars == <<memories, feedbacks, produced, owner, result, recalled>>
authEnv == <<config, auth, presented, mcpReached>>
authVars == <<authEnv, tenants, requests, response>>
loginVars == <<cookies, answer>>

-----------------------------------------------------------------------------
(* Bounds of the model. *)

\* CreateWorkflow calls that may be in flight at once.
MaxInFlight == 2

\* CreateWorkflow calls that may get as far as their commit over a whole run
\* (calls that fail earlier leave no trace and are not limited).
MaxCalls == 3

Slots == 1..MaxInFlight

-----------------------------------------------------------------------------
(* Workflow ledger: inputs. *)

\* tenant_id values of callers; "default" is also the column default and the
\* fallback of ListWorkflows.
TenantIDs == {"default", "tenant-a"}

\* What a request context may carry under "tenant_id" ("" = nothing).
CtxTenants == TenantIDs \cup {"", "tenant-c"}

\* workflow_id values a caller passes; "" is the zero value of the field.
WorkflowIDs == {"", "w1"}

Pairs == TenantIDs \X (WorkflowIDs \ {""})

\* The version id the caller passes: empty, so that CreateWorkflow makes one.
CallerIDs == {""}

\* Version, IsLatest, Description and Name as the caller filled them in: values
\* that are not the ones CreateWorkflow is to store.
CallerFields == {<<7, FALSE, "Summarizes long conversations", "Summarizer">>}

\* uuid.New().String(): distinct from every id already in use.
NewUUID(n) == "uuid-" \o ToString(n)

RECURSIVE FirstUnused(_, _)
FirstUnused(used, k) == IF NewUUID(k) \in used THEN FirstUnused(used, k + 1) ELSE NewUUID(k)

\* The workflow_id column is of type UUID: the empty string is not one.
ValidUUID(s) == s # ""


-----------------------------------------------------------------------------
(* Workflow ledger: the table as the transactions see it. *)

\* A row of the workflows table. xmin is the call whose open transaction
\* inserted the row (0 once committed); xmax is the call whose open
\* transaction has set is_latest = false on it (0 if none): until that
\* transaction commits, everybody else still reads is_latest = true.
WorkflowRow(id, t, w, v, latest, name, d, by) ==
    [id |-> id, tenant_id |-> t, workflow_id |-> w, version |-> v,
     is_latest |-> latest, name |-> name, description |-> d,
     xmin |-> by, xmax |-> 0]

\* models.Workflow as the caller builds it.
CallerWorkflows ==
    {[ID |-> i, TenantID |-> t, WorkflowID |-> w, Version |-> h[1],
      IsLatest |-> h[2], Name |-> h[4], Description |-> h[3]] :
        i \in CallerIDs, t \in TenantIDs, w \in WorkflowIDs, h \in CallerFields}

NoWorkflow ==
    [ID |-> "", TenantID |-> "", WorkflowID |-> "", Version |-> 0,
     IsLatest |-> FALSE, Name |-> "", Description |-> ""]

IdleCall == [pc |-> "idle", wf |-> NoWorkflow, target |-> "", nextVersion |-> 0]

\* The committed state of the table: what a statement outside any of the
\* open transactions reads.
Committed == {r \in workflows : r.xmin = 0}

ConceptRows(t, w) == {r \in Committed : r.tenant_id = t /\ r.workflow_id = w}

\* Rows a statement of call s's transaction sees: committed rows and its own.
VisibleTo(s) == {r \in workflows : r.xmin \in {0, s}}

\* is_latest of row r as call s's transaction reads it.
LatestFor(s, r) == r.is_latest /\ r.xmax # s

SetMax(S) == CHOOSE m \in S : \A x \in S : x <= m

\* Mutant of RolledBack: the retire UPDATE ran outside the transaction and
\* stays when the call fails.
RolledBack_KeepsRetirement(s) ==
    {IF r.xmax = s THEN [r EXCEPT !.is_latest = FALSE, !.xmax = 0] ELSE r :
        r \in {x \in workflows : x.xmin # s}}

\* tx.Rollback: the transaction's inserts and retirements are undone.
RolledBack(s) ==
    {IF r.xmax = s THEN [r EXCEPT !.xmax = 0] ELSE r :
        r \in {x \in workflows : x.xmin # s}}

\* Mutant of CommittedBy: the retired version is replaced, not kept.
CommittedBy_DropsRetired(s) ==
    {IF r.xmin = s THEN [r EXCEPT !.xmin = 0] ELSE r :
        r \in {x \in workflows : x.xmax # s}}

\* tx.Commit: the transaction's inserts and retirements become visible.
CommittedBy(s) ==
    {IF r.xmax = s THEN [r EXCEPT !.is_latest = FALSE, !.xmax = 0]
     ELSE IF r.xmin = s THEN [r EXCEPT !.xmin = 0]
     ELSE r : r \in workflows}

\* Mutant of RetireTargets: the UPDATE lacks "tenant_id = $2".
RetireTargets_AnyTenant(s, wf) ==
    {r \in VisibleTo(s) : r.workflow_id = wf.WorkflowID /\ LatestFor(s, r)}

\* UPDATE workflows SET is_latest = false WHERE workflow_id = $1 AND
\* tenant_id = $2 AND is_latest = true: the rows the statement finds.
RetireTargets(s, wf) ==
    {r \in VisibleTo(s) : /\ r.workflow_id = wf.WorkflowID
                          /\ r.tenant_id = wf.TenantID
                          /\ LatestFor(s, r)}

\* Mutant of MaxVersion: the SELECT lacks "tenant_id = $2".
MaxVersion_AnyTenant(s, wf) ==
    LET vs == {r.version : r \in {x \in VisibleTo(s) : x.workflow_id = wf.WorkflowID}}
    IN  IF vs = {} THEN <<>> ELSE <<SetMax(vs)>>

\* SELECT MAX(version) FROM workflows WHERE workflow_id = $1 AND tenant_id = $2,
\* scanned into maxVer *int: <<>> is the nil pointer (no row).
MaxVersion(s, wf) ==
    LET vs == {r.version : r \in {x \in VisibleTo(s) : /\ x.workflow_id = wf.WorkflowID
                                                        /\ x.tenant_id = wf.TenantID}}
    IN  IF vs = {} THEN <<>> ELSE <<SetMax(vs)>>

\* Mutant of NextVersion: the next version skips a number.
NextVersion_Skips(maxVer) == IF maxVer # <<>> THEN maxVer[1] + 2 ELSE 1

\* var nextVersion = 1; if maxVer != nil { nextVersion = *maxVer + 1 }
NextVersion(maxVer) == IF maxVer # <<>> THEN maxVer[1] + 1 ELSE 1

-----------------------------------------------------------------------------
(* Workflow ledger: the unique indexes. *)

\* A unique index's answer to an INSERT by call s, given the rows holding an
\* equal key: a conflicting row that is committed and not being retired is a
\* violation; one whose fate hangs on another open transaction (inserted by
\* it, or being retired by it) makes the INSERT wait for that transaction.
IndexVerdict(s, hits) ==
    IF \E r \in hits : r.xmin \in {0, s} /\ r.xmax \in {0, s} THEN "violation"
    ELSE IF hits # {} THEN "wait"
    ELSE "ok"

\* id UUID PRIMARY KEY
PkeyHits(s, n) == {r \in workflows : r.id = n.id}

\* CREATE UNIQUE INDEX idx_workflows_version ON workflows (tenant_id, workflow_id, version)
VersionHits(s, n) ==
    {r \in workflows : /\ r.tenant_id = n.tenant_id
                       /\ r.workflow_id = n.workflow_id
                       /\ r.version = n.version}

\* Mutant of LatestActiveHits: the partial unique index is missing.
LatestActiveHits_NoIndex(s, n) == {}

\* CREATE UNIQUE INDEX idx_workflows_latest_active ON workflows
\* (tenant_id, workflow_id) WHERE is_latest = TRUE. A row this transaction
\* has retired itself is no longer in the index for it.
LatestActiveHits(s, n) ==
    IF ~n.is_latest THEN {}
    ELSE {r \in workflows : /\ r.tenant_id = n.tenant_id
                            /\ r.workflow_id = n.workflow_id
                            /\ LatestFor(s, r)}

\* The INSERT's outcome: the error it returns, "wait" while it is blocked,
\* or "" when the row goes in. The parameters are bound first (an empty
\* string is no UUID), then the indexes are checked in the order they were
\* created.
InsertVerdict(s, n) ==
    LET pk == IndexVerdict(s, PkeyHits(s, n))
        ver == IndexVerdict(s, VersionHits(s, n))
        lat == IndexVerdict(s, LatestActiveHits(s, n))
    IN  IF ~ValidUUID(n.workflow_id) THEN "invalid_uuid"
        ELSE IF pk = "violation" THEN "workflows_pkey"
        ELSE IF pk = "wait" THEN "wait"
        ELSE IF ver = "violation" THEN "idx_workflows_version"
        ELSE IF ver = "wait" THEN "wait"
        ELSE IF lat = "violation" THEN "idx_workflows_latest_active"
        ELSE IF lat = "wait" THEN "wait"
        ELSE ""

-----------------------------------------------------------------------------
(* PostgresMemoryStore.CreateWorkflow, one action per database round trip. *)

\* Calls in flight.
InFlight == {q \in Slots : calls[q].pc # "idle"}

\* The bound of the model: no more calls than may still reach their commit.
MayBegin == workflowsCreated + Cardinality(InFlight) < MaxCalls

\* A call takes the first free slot (slots are interchangeable).
Free(s) ==
    /\ calls[s].pc = "idle"
    /\ \A q \in Slots : q < s => calls[q].pc # "idle"

\* The call returns err; its transaction is closed and its slot is free again.
Return(s, err) ==
    /\ calls' = [calls EXCEPT ![s] = IdleCall]
    /\ returned' = err

\* The ids in use: in the table, or chosen by a call in flight.
UsedIDs == {r.id : r \in workflows} \cup {calls[q].wf.ID : q \in Slots}

\* if workflow.ID == "" { workflow.ID = uuid.New().String() }
WithID(w) == IF w.ID = "" THEN [w EXCEPT !.ID = FirstUnused(UsedIDs, 1)] ELSE w

\* The workflow ids in use: in the table, or held by a call in flight.
UsedWorkflowIDs ==
    {r.workflow_id : r \in workflows} \cup {calls[q].wf.WorkflowID : q \in Slots}

\* Mutant of WithWorkflowID: the workflow id made for a new concept is
\* always the same one.
WithWorkflowID_SameID(w) ==
    IF w.WorkflowID = "" THEN [w EXCEPT !.WorkflowID = NewUUID(1)] ELSE w

\* Server.PutWorkflow: if workflow.WorkflowID == "" {
\* workflow.WorkflowID = uuid.New().String() }
WithWorkflowID(w) ==
    IF w.WorkflowID = "" THEN [w EXCEPT !.WorkflowID = FirstUnused(UsedWorkflowIDs, 1)] ELSE w

\* Mutant of Stamped: the IsLatest the caller filled in is kept.
Stamped_KeepsCallerLatest(wf, nextVersion) == [wf EXCEPT !.Version = nextVersion]

\* Mutant of Stamped: a version number the caller filled in is kept.
Stamped_KeepsCallerVersion(wf, nextVersion) ==
    [wf EXCEPT !.Version = IF @ # 0 THEN @ ELSE nextVersion, !.IsLatest = TRUE]

\* workflow.Version = nextVersion; workflow.IsLatest = true
Stamped(wf, nextVersion) == [wf EXCEPT !.Version = nextVersion, !.IsLatest = TRUE]

\* Lines 252-261: fill in the version id, open the transaction. With an
\* empty WorkflowID the retire and max-version statements are skipped.
\* Where the caller stands (seed) is the caller's to say.
Begin(s, w) ==
    /\ UNCHANGED <<memVars, authVars, loginVars>>
    /\ Free(s)
    /\ MayBegin
    /\ calls' = [calls EXCEPT ![s] =
                    [pc |-> IF w.WorkflowID # "" THEN "retire" ELSE "insert",
                     wf |-> WithID(w), target |-> "", nextVersion |-> 1]]
    /\ UNCHANGED <<workflows, returned, workflowsCreated>>

\* s.db.Begin fails: "failed to begin transaction".
BeginFails(s, w) ==
    /\ UNCHANGED <<memVars, authVars, loginVars>>
    /\ Free(s)
    /\ MayBegin
    /\ Return(s, "begin")
    /\ UNCHANGED <<workflows, workflowsCreated>>

\* Line 268, the retire UPDATE. The row it finds is locked and marked; if
\* another open transaction holds it, the statement waits for that one.
Retire(s) ==
    /\ UNCHANGED <<memVars, authVars, loginVars, seed>>
    /\ calls[s].pc = "retire"
    /\ LET hit == RetireTargets(s, calls[s].wf)
       IN  IF \E r \in hit : r.xmax # 0
           THEN /\ calls' = [calls EXCEPT ![s].pc = "waitRetire",
                                          ![s].target = (CHOOSE r \in hit : r.xmax # 0).id]
                /\ UNCHANGED workflows
           ELSE /\ workflows' = {IF r \in hit THEN [r EXCEPT !.xmax = s] ELSE r : r \in workflows}
                /\ calls' = [calls EXCEPT ![s].pc = "maxver"]
    /\ UNCHANGED <<returned, workflowsCreated>>

\* The lock holder has finished: the UPDATE re-checks is_latest = true on the
\* row's newest version and retires it only if it still holds. Rows committed
\* since the statement began are not in its snapshot.
RetireResume(s) ==
    /\ UNCHANGED <<memVars, authVars, loginVars, seed>>
    /\ calls[s].pc = "waitRetire"
    /\ \E r \in workflows :
          /\ r.id = calls[s].target
          /\ r.xmax = 0
          /\ workflows' = IF r.is_latest
                          THEN (workflows \ {r}) \cup {[r EXCEPT !.xmax = s]}
                          ELSE workflows
    /\ calls' = [calls EXCEPT ![s].pc = "maxver", ![s].target = ""]
    /\ UNCHANGED <<returned, workflowsCreated>>

\* Lines 274-282: SELECT MAX(version) and the next version number.
ReadMaxVersion(s) ==
    /\ UNCHANGED <<memVars, authVars, loginVars, seed>>
    /\ calls[s].pc = "maxver"
    /\ calls' = [calls EXCEPT ![s].pc = "insert",
                              ![s].nextVersion = NextVersion(MaxVersion(s, calls[s].wf))]
    /\ UNCHANGED <<workflows, returned, workflowsCreated>>

\* Mutant of Insert: after an INSERT that failed the call starts over at the
\* retire statement, as often as it takes.
Insert_TriesAgain(s) ==
    /\ UNCHANGED <<memVars, authVars, loginVars, seed>>
    /\ calls[s].pc = "insert"
    /\ LET wf == Stamped(calls[s].wf, calls[s].nextVersion)
           n == WorkflowRow(wf.ID, wf.TenantID, wf.WorkflowID, wf.Version,
                            wf.IsLatest, wf.Name, wf.Description, s)
           verdict == InsertVerdict(s, n)
       IN  /\ verdict # "wait"
           /\ IF verdict = ""
              THEN /\ workflows' = workflows \cup {n}
                   /\ calls' = [calls EXCEPT ![s].pc = "commit", ![s].wf = wf]
              ELSE /\ workflows' = RolledBack(s)
                   /\ calls' = [calls EXCEPT ![s].pc = "retire"]
    /\ UNCHANGED <<returned, workflowsCreated>>

\* Lines 285-296: stamp the struct and INSERT the new version. A constraint
\* violation returns "failed to insert workflow" and the deferred Rollback
\* undoes the retirement.
Insert(s) ==
    /\ UNCHANGED <<memVars, authVars, loginVars, seed>>
    /\ calls[s].pc = "insert"
    /\ LET wf == Stamped(calls[s].wf, calls[s].nextVersion)
           n == WorkflowRow(wf.ID, wf.TenantID, wf.WorkflowID, wf.Version,
                            wf.IsLatest, wf.Name, wf.Description, s)
           verdict == InsertVerdict(s, n)
       IN  /\ verdict # "wait"
           /\ IF verdict = ""
              THEN /\ workflows' = workflows \cup {n}
                   /\ calls' = [calls EXCEPT ![s].pc = "commit", ![s].wf = wf]
                   /\ UNCHANGED returned
              ELSE /\ workflows' = RolledBack(s)
                   /\ Return(s, verdict)
    /\ UNCHANGED workflowsCreated

\* Lines 298-301: count the workflow, then commit.
Commit(s) ==
    /\ UNCHANGED <<memVars, authVars, loginVars, seed>>
    /\ calls[s].pc = "commit"
    /\ workflowsCreated' = workflowsCreated + 1
    /\ workflows' = CommittedBy(s)
    /\ Return(s, "")

\* Lines 298-301 when tx.Commit returns an error (connection lost, context
\* cancelled): the counter was already incremented, the transaction is gone.
CommitFails(s) ==
    /\ UNCHANGED <<memVars, authVars, loginVars, seed>>
    /\ calls[s].pc = "commit"
    /\ workflowsCreated' = workflowsCreated + 1
    /\ workflows' = RolledBack(s)
    /\ Return(s, "commit")

\* Mutant of StatementFails: the deferred Rollback is missing, the call
\* returns with its transaction open.
StatementFails_LeaksTransaction(s) ==
    /\ UNCHANGED <<memVars, authVars, loginVars, seed>>
    /\ calls[s].pc \in {"retire", "waitRetire", "maxver", "insert"}
    /\ Return(s, "fault")
    /\ UNCHANGED <<workflows, workflowsCreated>>

\* A statement returns an error that is no constraint violation (connection
\* lost, context cancelled): the call returns it, the deferred Rollback runs.
StatementFails(s) ==
    /\ UNCHANGED <<memVars, authVars, loginVars, seed>>
    /\ calls[s].pc \in {"retire", "waitRetire", "maxver", "insert"}
    /\ workflows' = RolledBack(s)
    /\ Return(s, "fault")
    /\ UNCHANGED workflowsCreated

\* Server.PutWorkflow (PUT /api/v1/workflows) up to the opening of the
\* transaction: the tenant comes from the request context and replaces the
\* body's, a workflow id is made if the body has none, and CreateWorkflow
\* is called.
PutWorkflow(s, ctxTenant, body) ==
    /\ ctxTenant # ""
    /\ Begin(s, WithWorkflowID([body EXCEPT !.TenantID = ctxTenant]))
    /\ UNCHANGED seed

\* Server.PutWorkflow without a tenant id in the request context: 401,
\* CreateWorkflow is not called.
PutWorkflowUnauthorized ==
    /\ UNCHANGED <<memVars, authVars, loginVars, seed>>
    /\ returned' = "Tenant ID not found in context"
    /\ UNCHANGED <<workflows, calls, workflowsCreated>>

\* Server.PutWorkflow when CreateWorkflow cannot begin its transaction: 500.
PutWorkflowFails(s, ctxTenant, body) ==
    /\ ctxTenant # ""
    /\ BeginFails(s, WithWorkflowID([body EXCEPT !.TenantID = ctxTenant]))
    /\ UNCHANGED seed

\* Mutant of ListWorkflows: the query lacks "is_latest = true".
ListWorkflows_AllVersions(ctxTenant) ==
    LET tenantID == IF ctxTenant = "" THEN "default" ELSE ctxTenant
    IN  {r \in Committed : r.tenant_id = tenantID}

\* PostgresMemoryStore.ListWorkflows under a context carrying tenant_id = ctxTenant.
ListWorkflows(ctxTenant) ==
    LET tenantID == IF ctxTenant = "" THEN "default" ELSE ctxTenant
    IN  {r \in Committed : r.is_latest = TRUE /\ r.tenant_id = tenantID}

-----------------------------------------------------------------------------
(* The workflow ledger as a system. *)

-----------------------------------------------------------------------------
(* The memory store and the feedback path. Confidence is counted in tenths, *)
(* so 0.5 is 5. Each statement runs in its own transaction (db.Exec /      *)
(* db.QueryRow on the pool).                                                *)

\* Memories that may be stored over a run.
MaxMemories == 2

\* Feedback events that may be accepted over a run.
MaxEvents == 2

Contents == {"alpha"}

\* The confidence argument of give_feedback: any float64, in tenths.
Confidences == {3, 12}

\* Confidence: 0.5, // Initial confidence
InitialConfidence == 5

\* repository.Memory, the fields the memories table stores.
\* Embedding is the struct's zero value (a nil slice) until it is set.
Memory(id, t, c, conf, v) ==
    [ID |-> id, TenantID |-> t, Content |-> c, Embedding |-> <<>>,
     Confidence |-> conf, Version |-> v]

NoMemory == Memory("", "", "", 0, 0)

IdleFeedback == [pc |-> "idle", tenant |-> "", memory |-> NoMemory]

\* What a recall handed back: the tenant id its context carried and the
\* []*Memory slice, in the order of the rows.
Recalled(ctxTenant, found) == [tenant |-> ctxTenant, memories |-> found]

NoRecall == Recalled("", <<>>)

\* What the ML sidecar does with POST /embedding: it answers 200 with a
\* vector, answers another status, is not reachable, or answers 200 with a
\* body that is not a JSON array of numbers.
MLReplies == {"vector", "status", "unreachable", "undecodable"}

\* The vector the sidecar computes for a text (a stand-in for its 384 numbers).
Embed(text) == <<text>>

\* Mutant of GetEmbedding: the status code of the answer is not looked at.
GetEmbedding_IgnoresStatus(reply, text) ==
    IF reply = "vector" THEN [err |-> "", embedding |-> Embed(text)]
    ELSE IF reply = "status" THEN [err |-> "", embedding |-> <<>>]
    ELSE [err |-> reply, embedding |-> <<>>]

\* HTTPMLClient.GetEmbedding: (embedding, err).
GetEmbedding(reply, text) ==
    IF reply = "vector" THEN [err |-> "", embedding |-> Embed(text)]
    ELSE [err |-> reply, embedding |-> <<>>]

MemoryIDs == {m.ID : m \in memories}

\* The id argument of give_feedback: the ids memories can have, and one that
\* no memory has.
PossibleIDs == {NewUUID(n) : n \in 0..MaxMemories}

\* SELECT ... FROM memories WHERE id = $1
Get(id) == {m \in memories : m.ID = id}

\* UPDATE memories SET content = $1, ..., confidence = $3, version = $4, ...
\* WHERE id = $7
Update(memory) ==
    {IF m.ID = memory.ID
        THEN [m EXCEPT !.Content = memory.Content,
                       !.Embedding = memory.Embedding,
                       !.Confidence = memory.Confidence,
                       !.Version = memory.Version]
        ELSE m : m \in memories}

FeedbacksOn(id) == {q \in Slots : feedbacks[q].pc # "idle" /\ feedbacks[q].memory.ID = id}

\* The feedback events applied so far, over the memories ids.
RECURSIVE Applied(_)
Applied(ids) ==
    IF ids = {} THEN 0
    ELSE LET id == CHOOSE i \in ids : TRUE
         IN  (Len(produced[id]) - 1) + Applied(ids \ {id})

\* Feedback events accepted so far: applied, or in flight.
Accepted == Applied(DOMAIN produced) + Cardinality({q \in Slots : feedbacks[q].pc # "idle"})

FreeFeedback(s) ==
    /\ feedbacks[s].pc = "idle"
    /\ \A q \in Slots : q < s => feedbacks[q].pc # "idle"

\* MemoryService.Remember, embedding and Save succeeding: the struct is built
\* without TenantID and inserted.
Remember(ctxTenant, content) ==
    /\ UNCHANGED <<wfVars, authVars, loginVars, seed, recalled>>
    /\ Cardinality(memories) < MaxMemories
    /\ \E reply \in MLReplies :
          LET got == GetEmbedding(reply, content)
              memory == [Memory(FirstUnused(MemoryIDs, 1), "", content,
                                InitialConfidence, 1)
                            EXCEPT !.Embedding = got.embedding]
          IN  /\ got.err = ""
              /\ memories' = memories \cup {memory}
              /\ produced' = [i \in DOMAIN produced \cup {memory.ID} |->
                                 IF i = memory.ID THEN <<memory.Confidence>> ELSE produced[i]]
              /\ owner' = [i \in DOMAIN owner \cup {memory.ID} |->
                              IF i = memory.ID THEN ctxTenant ELSE owner[i]]
    /\ result' = "memory"
    /\ UNCHANGED feedbacks

\* MemoryService.Remember when GetEmbedding returns an error, or Save does.
RememberFails(ctxTenant, content) ==
    /\ UNCHANGED <<wfVars, authVars, loginVars, seed, recalled>>
    /\ \/ \E reply \in MLReplies : GetEmbedding(reply, content).err # ""
       \/ \E reply \in MLReplies : GetEmbedding(reply, content).err = ""
    /\ result' = "Failed to remember"
    /\ UNCHANGED <<memories, feedbacks, produced, owner>>

\* GiveFeedback up to the Update call: store.Get found the row;
\* memory.Confidence = confidence; memory.Version++.
FeedbackGet(s, ctxTenant, id, confidence) ==
    /\ UNCHANGED <<wfVars, authVars, loginVars, seed, recalled>>
    /\ FreeFeedback(s)
    /\ Get(id) # {}
    /\ Accepted < MaxEvents
    /\ LET memory == CHOOSE m \in Get(id) : TRUE
       IN  feedbacks' = [feedbacks EXCEPT ![s] =
               [pc |-> "update",
                tenant |-> ctxTenant,
                memory |-> [memory EXCEPT !.Confidence = confidence, !.Version = @ + 1]]]
    /\ UNCHANGED <<memories, produced, owner, result>>

\* GiveFeedback when store.Get returns an error (no row with the id, or the
\* query failed).
FeedbackGetFails(id) ==
    /\ UNCHANGED <<wfVars, authVars, loginVars, seed, recalled>>
    /\ result' = "Failed to give feedback"
    /\ UNCHANGED <<memories, feedbacks, produced, owner>>

\* return s.store.Update(ctx, memory), succeeding.
FeedbackUpdate(s) ==
    /\ UNCHANGED <<wfVars, authVars, loginVars, seed, recalled>>
    /\ feedbacks[s].pc = "update"
    /\ LET memory == feedbacks[s].memory
       IN  /\ memories' = Update(memory)
           /\ produced' = [produced EXCEPT ![memory.ID] = Append(@, memory.Confidence)]
    /\ feedbacks' = [feedbacks EXCEPT ![s] = IdleFeedback]
    /\ result' = "Feedback received"
    /\ UNCHANGED owner

\* store.Update returns an error.
FeedbackUpdateFails(s) ==
    /\ UNCHANGED <<wfVars, authVars, loginVars, seed, recalled>>
    /\ feedbacks[s].pc = "update"
    /\ feedbacks' = [feedbacks EXCEPT ![s] = IdleFeedback]
    /\ result' = "Failed to give feedback"
    /\ UNCHANGED <<memories, produced, owner>>

\* The queries of recall.
Queries == {"alpha", "beta"}

\* embedding <=> $2, the cosine distance: nothing between a vector and
\* itself, something between the vectors of two texts.
Distance(a, b) == IF a = b THEN 0 ELSE 1

\* ORDER BY embedding <=> $2 LIMIT k: the k rows nearest to q, nearest
\* first; rows at the same distance come in an order the database picks.
RECURSIVE Nearest(_, _, _)
Nearest(rows, q, k) ==
    IF k = 0 \/ rows = {} THEN <<>>
    ELSE LET m == CHOOSE m \in rows :
                      \A x \in rows : Distance(m.Embedding, q) <= Distance(x.Embedding, q)
         IN  <<m>> \o Nearest(rows \ {m}, q, k - 1)

\* ... LIMIT 10
SearchLimit == 10

\* PostgresMemoryStore.Search: a context without tenant id reads as tenant
\* "default"; SELECT ... FROM memories WHERE tenant_id = $1
\* ORDER BY embedding <=> $2 LIMIT 10.
Search(ctxTenant, embedding) ==
    LET tenantID == IF ctxTenant = "" THEN "default" ELSE ctxTenant
    IN  Nearest({m \in memories : m.TenantID = tenantID}, embedding, SearchLimit)

\* Rows that may be stored for one tenant over a run.
MaxRows == 11

RowsOf(t) == {m \in memories : m.TenantID = t}

\* The memory a caller of the store saves next for tenant t: a fresh id, the
\* texts of the queries in turn, its embedding computed.
NextMemoryOf(t) ==
    LET n == Cardinality(RowsOf(t))
        k == IF t = "default" THEN n + 1 ELSE MaxRows + n + 1
        c == IF n % 2 = 0 THEN "alpha" ELSE "beta"
    IN  [Memory(NewUUID(k), t, c, InitialConfidence, 1) EXCEPT !.Embedding = Embed(c)]

\* PostgresMemoryStore.Save: INSERT INTO memories (id, tenant_id, ...)
\* VALUES ($1, $2, ...) with the struct's fields.
Save(memory) ==
    /\ UNCHANGED <<wfVars, authVars, loginVars, seed, recalled>>
    /\ memory.ID \notin MemoryIDs
    /\ Cardinality(RowsOf(memory.TenantID)) < MaxRows
    /\ memories' = memories \cup {memory}
    /\ produced' = [i \in DOMAIN produced \cup {memory.ID} |->
                       IF i = memory.ID THEN <<memory.Confidence>> ELSE produced[i]]
    /\ owner' = [i \in DOMAIN owner \cup {memory.ID} |->
                    IF i = memory.ID THEN memory.TenantID ELSE owner[i]]
    /\ UNCHANGED <<feedbacks, result>>

\* The memories of a slice, as a set.
Range(found) == {found[i] : i \in 1..Len(found)}

\* MemoryService.Recall, embedding and Search succeeding.
Recall(ctxTenant, query) ==
    /\ UNCHANGED <<wfVars, authVars, loginVars, seed>>
    /\ \E reply \in MLReplies :
          LET got == GetEmbedding(reply, query)
          IN  /\ got.err = ""
              /\ recalled' = Recalled(ctxTenant, Search(ctxTenant, got.embedding))
    /\ result' = "memories"
    /\ UNCHANGED <<memories, feedbacks, produced, owner>>

\* MemoryService.Recall when GetEmbedding returns an error, or Search does.
RecallFails(ctxTenant, query) ==
    /\ UNCHANGED <<wfVars, authVars, loginVars, seed>>
    /\ \/ \E reply \in MLReplies : GetEmbedding(reply, query).err # ""
       \/ \E reply \in MLReplies : GetEmbedding(reply, query).err = ""
    /\ recalled' = Recalled(ctxTenant, <<>>)
    /\ result' = "Failed to recall"
    /\ UNCHANGED <<memories, feedbacks, produced, owner>>

-----------------------------------------------------------------------------
(* The RequireAuth middleware and tenant resolution. An email is the        *)
(* sequence of its pieces, "@" being a piece of its own, so that splitting  *)
(* is computed. Each tenants statement runs in its own transaction.         *)

\* cfg.Auth.ClientID
ClientID == "client-id"

Audiences == {ClientID, "api://default"}

Emails == {<<"a", "@", "newco.io">>, <<"b", "@", "newco.io">>,
           <<"c", "@", "other.org">>, <<"nodomain">>,
           <<"d", "@", "newco.io", "@", "other.org">>}

\* Mutant of BypassEmail: the placeholder identity has no domain.
BypassEmail_NoDomain == <<"dev">>

\* email = "dev@localhost"
BypassEmail == <<"dev", "@", "localhost">>

\* A token: valid = signed by the provider and unexpired; aud, email = claims.
Tokens == [valid : BOOLEAN, aud : Audiences, email : Emails]

\* A request: the credential comes in the Authorization header ("bearer"),
\* in the id_token cookie ("cookie") or not at all ("none").
Requests == [via : {"bearer", "cookie", "none"}, token : Tokens]

Environments == {"dev", "DEV", "production"}

Configs == [Environment : Environments, DevModeBypass : BOOLEAN]

\* strings.ToUpper on the environment names.
ToUpper(str) ==
    IF str = "dev" THEN "DEV" ELSE IF str = "production" THEN "PRODUCTION" ELSE str

\* Mutant of New: the bypass follows the environment alone.
New_BypassInDev(cfg) ==
    LET isDev == ToUpper(cfg.Environment) = "DEV"
    IN  [devMode |-> isDev, authBypass |-> isDev]

\* auth.New: the fields of the Auth object that RequireAuth reads.
New(cfg) ==
    LET isDev == ToUpper(cfg.Environment) = "DEV"
        shouldBypass == isDev /\ cfg.DevModeBypass
    IN  [devMode |-> isDev, authBypass |-> shouldBypass]

\* strings.Split(email, "@")
RECURSIVE Split(_)
Split(email) ==
    IF email = <<>> THEN <<"">>
    ELSE LET rest == Split(Tail(email))
         IN  IF Head(email) = "@" THEN <<"">> \o rest
             ELSE <<Head(email) \o Head(rest)>> \o Tail(rest)

\* Mutant of VerifierVerify: the session verifier skips the audience check too.
VerifierVerify_SkipsClientID(token) == token.valid

\* provider.Verifier(&oidc.Config{ClientID: cfg.Auth.ClientID}).Verify
VerifierVerify(token) == token.valid /\ token.aud = ClientID

\* Mutant of ApiVerifierVerify: the bearer token is not verified.
ApiVerifierVerify_AcceptsAll(token) == TRUE

\* provider.Verifier(&oidc.Config{SkipClientIDCheck: true}).Verify
ApiVerifierVerify(token) == token.valid

\* http.Redirect(w, r, "/login", http.StatusSeeOther) and the http.Error
\* answers of RequireAuth, by their text.
Redirected == "/login"
InvalidToken == "invalid token"
InvalidEmail == "invalid email format in token"

\* Mutant of Authenticate: an email is taken when it has at least two parts.
Authenticate_AtLeastTwoParts(req) ==
    LET email == IF auth.authBypass THEN BypassEmail ELSE req.token.email
        parts == Split(email)
        status == IF auth.authBypass THEN 200
                  ELSE IF req.via = "bearer"
                       THEN IF ApiVerifierVerify(req.token) THEN 200 ELSE 401
                  ELSE IF req.via = "none" THEN 303
                  ELSE IF VerifierVerify(req.token) THEN 200 ELSE 401
    IN  IF status # 200
        THEN [status |-> status, domain |-> "",
              err |-> IF status = 303 THEN Redirected ELSE InvalidToken]
        ELSE IF Len(parts) < 2 THEN [status |-> 401, domain |-> "", err |-> InvalidEmail]
        ELSE [status |-> 200, domain |-> parts[2], err |-> ""]

\* RequireAuth up to the tenant lookup: the status it answers with (200 = it
\* goes on), the domain it resolves, and what it answers when it does not
\* go on.
Authenticate(req) ==
    LET email == IF auth.authBypass THEN BypassEmail ELSE req.token.email
        parts == Split(email)
        status == IF auth.authBypass THEN 200
                  ELSE IF req.via = "bearer"
                       THEN IF ApiVerifierVerify(req.token) THEN 200 ELSE 401
                  ELSE IF req.via = "none" THEN 303
                  ELSE IF VerifierVerify(req.token) THEN 200 ELSE 401
    IN  IF status # 200
        THEN [status |-> status, domain |-> "",
              err |-> IF status = 303 THEN Redirected ELSE InvalidToken]
        ELSE IF Len(parts) # 2 THEN [status |-> 401, domain |-> "", err |-> InvalidEmail]
        ELSE [status |-> 200, domain |-> parts[2], err |-> ""]

\* models.Tenant as stored.
Tenant(id, name, domain) == [id |-> id, name |-> name, domain |-> domain]

\* A RequireAuth invocation: where it is, the domain it resolves, and err,
\* the error GetTenantByDomain returned to it ("" = nil).
IdleRequest == [pc |-> "idle", domain |-> "", err |-> ""]

Response(status, domain, tenantID, err) ==
    [status |-> status, domain |-> domain, tenant_id |-> tenantID, err |-> err]

\* Mutant of GetTenantByDomain: the query finds no row.
GetTenantByDomain_FindsNothing(domain) == {}

\* SELECT id, name, domain, ... FROM tenants WHERE domain = $1
GetTenantByDomain(domain) == {t \in tenants : t.domain = domain}

\* No request: no credential, a token without claims.
NoRequest == [via |-> "none", token |-> [valid |-> FALSE, aud |-> "", email |-> <<>>]]

\* Mutant of DomainHits: the domain column is not UNIQUE.
DomainHits_NotUnique(domain) == {}

\* domain TEXT UNIQUE NOT NULL: the rows an insert of the domain collides with.
DomainHits(domain) == {t \in tenants : t.domain = domain}

FreeRequest(s) ==
    /\ requests[s].pc = "idle"
    /\ \A q \in Slots : q < s => requests[q].pc # "idle"

\* RequireAuth answers without resolving a tenant: redirect to /login, or 401.
Reject(req) ==
    /\ UNCHANGED <<wfVars, memVars, loginVars, seed>>
    /\ Authenticate(req).status # 200
    /\ response' = Response(Authenticate(req).status, "", "", Authenticate(req).err)
    /\ UNCHANGED <<authEnv, tenants, requests>>

\* RequireAuth has an email with a domain and goes on to the lookup.
Admit(s, req) ==
    /\ UNCHANGED <<wfVars, memVars, loginVars, seed>>
    /\ FreeRequest(s)
    /\ Authenticate(req).status = 200
    /\ requests' = [requests EXCEPT ![s] =
                       [pc |-> "lookup", domain |-> Authenticate(req).domain, err |-> ""]]
    /\ UNCHANGED <<authEnv, tenants, response>>

\* a.repo.GetTenantByDomain: a row is found and next is served with its id;
\* no row is an error (pgx.ErrNoRows) and leads to auto-provisioning.
Lookup(s) ==
    /\ UNCHANGED <<wfVars, memVars, loginVars, seed>>
    /\ requests[s].pc = "lookup"
    /\ LET domain == requests[s].domain
       IN  IF GetTenantByDomain(domain) = {}
           THEN /\ requests' = [requests EXCEPT ![s].pc = "create", ![s].err = "no rows"]
                /\ UNCHANGED response
           ELSE /\ \E t \in GetTenantByDomain(domain) :
                       response' = Response(200, domain, t.id, "")
                /\ requests' = [requests EXCEPT ![s] = IdleRequest]
    /\ UNCHANGED <<authEnv, tenants>>

\* a.repo.GetTenantByDomain fails for another reason: any error leads to
\* auto-provisioning.
LookupFails(s) ==
    /\ UNCHANGED <<wfVars, memVars, loginVars, seed>>
    /\ requests[s].pc = "lookup"
    /\ requests' = [requests EXCEPT ![s].pc = "create", ![s].err = "fault"]
    /\ UNCHANGED <<authEnv, tenants, response>>

\* Mutant of CreateTenant: the error of the insert is dropped and the next
\* handler is served with the tenant struct as it is.
CreateTenant_IgnoresError(s) ==
    /\ UNCHANGED <<wfVars, memVars, loginVars, seed>>
    /\ requests[s].pc = "create"
    /\ LET domain == requests[s].domain
           id == FirstUnused({t.id : t \in tenants}, 1)
       IN  IF DomainHits(domain) # {}
           THEN /\ response' = Response(200, domain, "", "")
                /\ UNCHANGED tenants
           ELSE /\ tenants' = tenants \cup {Tenant(id, domain, domain)}
                /\ response' = Response(200, domain, id, "")
    /\ requests' = [requests EXCEPT ![s] = IdleRequest]
    /\ UNCHANGED authEnv

\* a.repo.CreateTenant(&models.Tenant{Name: domain, Domain: domain}): the
\* INSERT ... RETURNING id, and on an error the 500 answer.
CreateTenant(s) ==
    /\ UNCHANGED <<wfVars, memVars, loginVars, seed>>
    /\ requests[s].pc = "create"
    /\ LET domain == requests[s].domain
           id == FirstUnused({t.id : t \in tenants}, 1)
       IN  IF DomainHits(domain) # {}
           THEN /\ response' = Response(500, domain, "", "tenants_domain_key")
                /\ UNCHANGED tenants
           ELSE /\ tenants' = tenants \cup {Tenant(id, domain, domain)}
                /\ response' = Response(200, domain, id, "")
    /\ requests' = [requests EXCEPT ![s] = IdleRequest]
    /\ UNCHANGED authEnv

\* a.repo.CreateTenant fails for another reason.
CreateTenantFails(s) ==
    /\ UNCHANGED <<wfVars, memVars, loginVars, seed>>
    /\ requests[s].pc = "create"
    /\ response' = Response(500, requests[s].domain, "", "fault")
    /\ requests' = [requests EXCEPT ![s] = IdleRequest]
    /\ UNCHANGED <<authEnv, tenants>>

-----------------------------------------------------------------------------
(* The login flow: LoginHandler and CallbackHandler. A cookie is the set of *)
(* its values: empty when the browser has none, one value otherwise.        *)

\* generateState(): random values.
States == {"s1", "s2"}

\* The state query parameter of a callback request ("" = none).
StateParams == States \cup {""}

\* The ID tokens the provider may hand out at the exchange.
LoginTokens == {t \in Tokens : t.email = <<"a", "@", "newco.io">>}

\* a.oauth2Config.Exchange(ctx, code): an error, a token response without
\* id_token, or one with an ID token.
Exchanges ==
    {[err |-> "exchange", id_token |-> {}], [err |-> "", id_token |-> {}]}
        \cup {[err |-> "", id_token |-> {t}] : t \in LoginTokens}

NoCookies == [oauthstate |-> {}, id_token |-> {}]

\* A handler's answer: the handler, the oauthstate cookie and the state
\* parameter of the request, what the exchange gave, status and text.
Answer(handler, cookie, state, exchange, status, text) ==
    [handler |-> handler, cookie |-> cookie, state |-> state,
     exchange |-> exchange, status |-> status, text |-> text]

NoExchange == [err |-> "", id_token |-> {}]

NoAnswer == Answer("", {}, "", NoExchange, 0, "")

\* Mutant of ValidState: the cookie only has to be there.
ValidState_CookieOnly(cookie, state) == cookie # {}

\* cookie, err := r.Cookie("oauthstate");
\* err != nil || r.URL.Query().Get("state") != cookie.Value is refused.
ValidState(cookie, state) == cookie # {} /\ cookie = {state}

\* LoginHandler: under the bypass a redirect to "/"; otherwise the state is
\* put in the oauthstate cookie and the browser is sent to the provider.
Login(state) ==
    /\ UNCHANGED <<wfVars, memVars, authVars, seed>>
    /\ IF auth.authBypass
       THEN /\ answer' = Answer("login", cookies.oauthstate, "", NoExchange, 303, "/")
            /\ UNCHANGED cookies
       ELSE /\ cookies' = [cookies EXCEPT !.oauthstate = {state}]
            /\ answer' = Answer("login", cookies.oauthstate, "", NoExchange, 307, "AuthCodeURL")

\* LoginHandler when generateState fails (crypto/rand): 500, no cookie.
LoginFails ==
    /\ UNCHANGED <<wfVars, memVars, authVars, seed>>
    /\ ~auth.authBypass
    /\ answer' = Answer("login", cookies.oauthstate, "", NoExchange, 500, "failed to generate state")
    /\ UNCHANGED cookies

\* CallbackHandler on a request of the browser: its oauthstate cookie, the
\* state parameter, and what the provider answers to the exchange.
Callback(state, exchange) ==
    /\ UNCHANGED <<wfVars, memVars, authVars, seed>>
    /\ LET cookie == cookies.oauthstate
           Answers(status, text) == Answer("callback", cookie, state, exchange, status, text)
       IN  IF auth.authBypass
           THEN /\ answer' = Answer("callback", cookie, state, NoExchange, 303, "/")
                /\ UNCHANGED cookies
           ELSE IF ~ValidState(cookie, state)
           THEN /\ answer' = Answer("callback", cookie, state, NoExchange, 400, "invalid state")
                /\ UNCHANGED cookies
           ELSE IF exchange.err # ""
           THEN /\ answer' = Answers(500, "token exchange failed")
                /\ UNCHANGED cookies
           ELSE IF exchange.id_token = {}
           THEN /\ answer' = Answers(500, "no id_token in token response")
                /\ UNCHANGED cookies
           ELSE IF \E t \in exchange.id_token : ~VerifierVerify(t)
           THEN /\ answer' = Answers(401, "failed to verify id token")
                /\ UNCHANGED cookies
           ELSE /\ cookies' = [cookies EXCEPT !.id_token = exchange.id_token]
                /\ answer' = Answers(303, "/")

-----------------------------------------------------------------------------
(* The seed program: one run after the other against the same database.    *)

\* domain := "localhost"
SeedDomain == "localhost"

\* The workflows slice of the seed program.
SeedWorkflows ==
    <<[Name |-> "Summarizer",
       Description |-> "Summarizes long conversations into concise notes."],
      [Name |-> "Fact Checker",
       Description |-> "Verifies claims against stored long-term memories."],
      [Name |-> "Code Reviewer",
       Description |-> "Analyzes code snippets for style and bugs."]>>

SeedNames == {SeedWorkflows[i].Name : i \in 1..Len(SeedWorkflows)}

\* The program between runs. outcome is how the last run ended: "complete"
\* (no error), "errors" (a CreateWorkflow error was logged) or "fatal"
\* (log.Fatalf); "none" before the first run.
IdleSeed == [pc |-> "idle", tenant |-> "", existing |-> {}, i |-> 0, outcome |-> "none"]

\* wf := &models.Workflow{TenantID: tenant.ID, WorkflowID: uuid.New().String(),
\* Name: w.Name, ..., Version: 1, IsLatest: true}
SeedWorkflow(tenantID, w) ==
    [ID |-> "", TenantID |-> tenantID,
     WorkflowID |-> FirstUnused(UsedWorkflowIDs, 1), Version |-> 1,
     IsLatest |-> TRUE, Name |-> w.Name, Description |-> w.Description]

\* Mutant of Existing: the map of existing names stays empty.
Existing_Nothing(found) == {}

\* existingMap[w.Name] = true for the workflows ListWorkflows returned.
Existing(found) == {r.name : r \in found}

\* A run starts: store.GetTenantByDomain(ctx, domain) finds the tenant, or
\* returns pgx.ErrNoRows.
SeedLookup ==
    /\ UNCHANGED <<wfVars, memVars, authVars, loginVars>>
    /\ seed.pc = "idle"
    /\ IF GetTenantByDomain(SeedDomain) = {}
       THEN seed' = [IdleSeed EXCEPT !.pc = "tenant", !.outcome = "running"]
       ELSE \E t \in GetTenantByDomain(SeedDomain) :
               seed' = [IdleSeed EXCEPT !.pc = "list", !.tenant = t.id,
                                        !.outcome = "running"]

\* A run starts and GetTenantByDomain fails for another reason: any error
\* leads to CreateTenant.
SeedLookupFails ==
    /\ UNCHANGED <<wfVars, memVars, authVars, loginVars>>
    /\ seed.pc = "idle"
    /\ seed' = [IdleSeed EXCEPT !.pc = "tenant", !.outcome = "running"]

\* store.CreateTenant(ctx, &models.Tenant{Name: "Local Dev Tenant",
\* Domain: domain}); a violation of the UNIQUE domain is an error: Fatalf.
SeedCreateTenant ==
    /\ UNCHANGED <<wfVars, memVars, loginVars, authEnv, requests, response>>
    /\ seed.pc = "tenant"
    /\ LET id == FirstUnused({t.id : t \in tenants}, 1)
       IN  IF DomainHits(SeedDomain) # {}
           THEN /\ seed' = [IdleSeed EXCEPT !.outcome = "fatal"]
                /\ UNCHANGED tenants
           ELSE /\ tenants' = tenants \cup {Tenant(id, "Local Dev Tenant", SeedDomain)}
                /\ seed' = [seed EXCEPT !.pc = "list", !.tenant = id]

\* store.CreateTenant fails for another reason: Fatalf.
SeedCreateTenantFails ==
    /\ UNCHANGED <<wfVars, memVars, authVars, loginVars>>
    /\ seed.pc = "tenant"
    /\ seed' = [IdleSeed EXCEPT !.outcome = "fatal"]

\* store.ListWorkflows with the tenant's id in the context, and the map of
\* the names it returned.
SeedList ==
    /\ UNCHANGED <<wfVars, memVars, authVars, loginVars>>
    /\ seed.pc = "list"
    /\ seed' = [seed EXCEPT !.pc = "loop", !.i = 1,
                            !.existing = Existing(ListWorkflows(seed.tenant))]

\* store.ListWorkflows fails: Fatalf.
SeedListFails ==
    /\ UNCHANGED <<wfVars, memVars, authVars, loginVars>>
    /\ seed.pc = "list"
    /\ seed' = [IdleSeed EXCEPT !.outcome = "fatal"]

SeedAt(i) == seed.pc = "loop" /\ seed.i = i /\ i \in 1..Len(SeedWorkflows)

\* if existingMap[w.Name] { continue }
SeedSkip ==
    /\ UNCHANGED <<wfVars, memVars, authVars, loginVars>>
    /\ SeedAt(seed.i)
    /\ SeedWorkflows[seed.i].Name \in seed.existing
    /\ seed' = [seed EXCEPT !.i = @ + 1]

\* store.CreateWorkflow(ctx, wf) for a name that is not in the map: the call
\* begins.
SeedCreate(s) ==
    /\ SeedAt(seed.i)
    /\ SeedWorkflows[seed.i].Name \notin seed.existing
    /\ Begin(s, SeedWorkflow(seed.tenant, SeedWorkflows[seed.i]))
    /\ seed' = [seed EXCEPT !.pc = "call"]

\* store.CreateWorkflow cannot begin its transaction: the error is logged
\* and the loop goes on.
SeedCreateFails(s) ==
    /\ SeedAt(seed.i)
    /\ SeedWorkflows[seed.i].Name \notin seed.existing
    /\ BeginFails(s, SeedWorkflow(seed.tenant, SeedWorkflows[seed.i]))
    /\ seed' = [seed EXCEPT !.i = @ + 1, !.outcome = "errors"]

\* store.CreateWorkflow has returned: an error is logged, and the loop goes
\* on either way.
SeedReturned ==
    /\ UNCHANGED <<wfVars, memVars, authVars, loginVars>>
    /\ seed.pc = "call"
    /\ \A s \in Slots : calls[s].pc = "idle"
    /\ seed' = [seed EXCEPT !.pc = "loop", !.i = @ + 1,
                            !.outcome = IF returned = "" THEN @ ELSE "errors"]

\* The loop is through: "Seeding complete!", the program exits.
SeedDone ==
    /\ UNCHANGED <<wfVars, memVars, authVars, loginVars>>
    /\ seed.pc = "loop"
    /\ seed.i = Len(SeedWorkflows) + 1
    /\ seed' = [IdleSeed EXCEPT !.outcome =
                    IF seed.outcome = "running" THEN "complete" ELSE "errors"]

\* main: e.Any("/mcp/*", echo.WrapHandler(mcpHandlers)). The route carries no
\* middleware: the request goes to the MCP handlers as it came.
ServeMCP(req) ==
    /\ UNCHANGED <<wfVars, memVars, loginVars, seed>>
    /\ mcpReached' = TRUE
    /\ UNCHANGED <<config, auth, presented, tenants, requests, response>>

InitWorkflows ==
    /\ workflows = {}
    /\ calls = [s \in Slots |-> IdleCall]
    /\ returned = "none"
    /\ workflowsCreated = 0

InitMemories ==
    /\ memories = {}
    /\ feedbacks = [s \in Slots |-> IdleFeedback]
    /\ produced = [i \in {} |-> <<>>]
    /\ owner = [i \in {} |-> ""]
    /\ result = "none"
    /\ recalled = NoRecall

InitAuth(cfgs, reqs) ==
    /\ config \in cfgs
    /\ auth = New(config)
    /\ presented \in reqs
    /\ mcpReached = FALSE
    /\ tenants = {}
    /\ requests = [s \in Slots |-> IdleRequest]
    /\ response = Response(0, "", "", "")
    /\ cookies = NoCookies
    /\ answer = NoAnswer
    /\ seed = IdleSeed

\* The server as deployed: not a development environment, no bypass flag.
Init ==
    /\ InitWorkflows
    /\ InitMemories
    /\ InitAuth({cfg \in Configs : cfg.Environment = "production" /\ ~cfg.DevModeBypass},
                {NoRequest})

\* The server under any configuration auth.New accepts.
InitAnyConfig == InitWorkflows /\ InitMemories /\ InitAuth(Configs, {NoRequest})

\* The server under any configuration, and one request that is followed
\* through the router and the middleware.
InitRequest == InitWorkflows /\ InitMemories /\ InitAuth(Configs, Requests)

Next ==
    \/ \E s \in Slots, w \in CallerWorkflows : Begin(s, w) /\ UNCHANGED seed
    \/ \E s \in Slots, w \in CallerWorkflows : BeginFails(s, w) /\ UNCHANGED seed
    \/ \E s \in Slots : Retire(s)
    \/ \E s \in Slots : RetireResume(s)
    \/ \E s \in Slots : ReadMaxVersion(s)
    \/ \E s \in Slots : Insert(s)
    \/ \E s \in Slots : Commit(s)
    \/ \E s \in Slots : CommitFails(s)
    \/ \E s \in Slots : StatementFails(s)

Spec == Init /\ [][Next]_vars

\* The tenant ids RequireAuth puts in the context of the API's requests.
ApiTenants == {"tenant-a"}

\* The request bodies of PUT /api/v1/workflows: with and without a workflow
\* id, and with a tenant id that is not the context's.
ApiBodies == {w \in CallerWorkflows : w.TenantID = "default"}

\* The workflow ledger behind the REST API: every call comes in through
\* PutWorkflow.
NextApi ==
    \/ \E s \in Slots, t \in ApiTenants, w \in ApiBodies : PutWorkflow(s, t, w)
    \/ \E s \in Slots, t \in ApiTenants, w \in ApiBodies : PutWorkflowFails(s, t, w)
    \/ PutWorkflowUnauthorized
    \/ \E s \in Slots : Retire(s)
    \/ \E s \in Slots : RetireResume(s)
    \/ \E s \in Slots : ReadMaxVersion(s)
    \/ \E s \in Slots : Insert(s)
    \/ \E s \in Slots : Commit(s)
    \/ \E s \in Slots : CommitFails(s)
    \/ \E s \in Slots : StatementFails(s)

SpecApi == Init /\ [][NextApi]_vars

\* Callers that race: CreateWorkflow calls of one tenant with the same
\* workflow id.
RacingWorkflows ==
    {w \in CallerWorkflows : w.TenantID = "default" /\ w.WorkflowID # ""}

\* Requests that race: verified bearer tokens of two users of one domain.
RacingRequests ==
    {req \in Requests : /\ req.via = "bearer"
                        /\ req.token.valid
                        /\ req.token.aud = ClientID
                        /\ req.token.email \in {<<"a", "@", "newco.io">>,
                                                <<"b", "@", "newco.io">>}}

\* CreateWorkflow calls and RequireAuth invocations side by side.
NextCalls ==
    \/ \E s \in Slots, w \in RacingWorkflows : Begin(s, w) /\ UNCHANGED seed
    \/ \E s \in Slots, w \in RacingWorkflows : BeginFails(s, w) /\ UNCHANGED seed
    \/ \E s \in Slots : Retire(s)
    \/ \E s \in Slots : RetireResume(s)
    \/ \E s \in Slots : ReadMaxVersion(s)
    \/ \E s \in Slots : Insert(s)
    \/ \E s \in Slots : Commit(s)
    \/ \E s \in Slots : CommitFails(s)
    \/ \E s \in Slots : StatementFails(s)
    \/ \E s \in Slots, req \in RacingRequests : Admit(s, req)
    \/ \E s \in Slots : Lookup(s)
    \/ \E s \in Slots : LookupFails(s)
    \/ \E s \in Slots : CreateTenant(s)
    \/ \E s \in Slots : CreateTenantFails(s)

\* A step of the CreateWorkflow call in slot s, once it has begun.
CallStep(s) ==
    \/ Retire(s) \/ RetireResume(s) \/ ReadMaxVersion(s) \/ Insert(s)
    \/ Commit(s) \/ CommitFails(s) \/ StatementFails(s)

\* A step of the RequireAuth invocation in slot s, once it was admitted.
RequestStep(s) == Lookup(s) \/ LookupFails(s) \/ CreateTenant(s) \/ CreateTenantFails(s)

\* Every handler runs on a goroutine of its own and the database answers
\* every statement, with a result or with an error: a call that can take a
\* step takes one.
SpecCalls ==
    /\ Init
    /\ [][NextCalls]_vars
    /\ \A s \in Slots : WF_vars(CallStep(s)) /\ WF_vars(RequestStep(s))

NextMemory ==
    \/ \E t \in TenantIDs, c \in Contents : Remember(t, c)
    \/ \E t \in TenantIDs, c \in Contents : RememberFails(t, c)
    \/ \E s \in Slots, t \in TenantIDs, id \in PossibleIDs, c \in Confidences :
          FeedbackGet(s, t, id, c)
    \/ \E id \in PossibleIDs : FeedbackGetFails(id)
    \/ \E s \in Slots : FeedbackUpdate(s)
    \/ \E s \in Slots : FeedbackUpdateFails(s)

SpecMemory == Init /\ [][NextMemory]_vars

\* The login flow of one browser, under any configuration.
NextLogin ==
    \/ \E state \in States : Login(state)
    \/ LoginFails
    \/ \E state \in StateParams, exchange \in Exchanges : Callback(state, exchange)

SpecLogin == InitAnyConfig /\ [][NextLogin]_vars

\* Runs of the seed program, one after the other, and nobody else on the
\* database: its CreateWorkflow calls never meet another transaction.
NextSeed ==
    \/ SeedLookup
    \/ SeedLookupFails
    \/ SeedCreateTenant
    \/ SeedCreateTenantFails
    \/ SeedList
    \/ SeedListFails
    \/ SeedSkip
    \/ \E s \in Slots : SeedCreate(s)
    \/ \E s \in Slots : SeedCreateFails(s)
    \/ \E s \in Slots : Retire(s)
    \/ \E s \in Slots : ReadMaxVersion(s)
    \/ \E s \in Slots : Insert(s)
    \/ \E s \in Slots : Commit(s)
    \/ \E s \in Slots : CommitFails(s)
    \/ \E s \in Slots : StatementFails(s)
    \/ SeedReturned
    \/ SeedDone

SpecSeed == Init /\ [][NextSeed]_vars

\* The store under its callers: memories saved with the tenant id the caller
\* filled in, and recalls with and without a tenant id in the context.
NextSearch ==
    \/ \E t \in TenantIDs : Save(NextMemoryOf(t))
    \/ \E t \in TenantIDs \cup {""}, q \in Queries : Recall(t, q)
    \/ \E t \in TenantIDs \cup {""}, q \in Queries : RecallFails(t, q)

SpecSearch == Init /\ [][NextSearch]_vars

NextAuth ==
    \/ \E req \in Requests : Reject(req)
    \/ \E s \in Slots, req \in Requests : Admit(s, req)
    \/ \E s \in Slots : Lookup(s)
    \/ \E s \in Slots : LookupFails(s)
    \/ \E s \in Slots : CreateTenant(s)
    \/ \E s \in Slots : CreateTenantFails(s)

SpecAuth == InitAnyConfig /\ [][NextAuth]_vars

\* The presented request, sent any number of times to /api/v1 (behind
\* RequireAuth) and to /mcp.
NextRequest ==
    \/ Reject(presented)
    \/ \E s \in Slots : Admit(s, presented)
    \/ \E s \in Slots : Lookup(s)
    \/ \E s \in Slots : LookupFails(s)
    \/ \E s \in Slots : CreateTenant(s)
    \/ \E s \in Slots : CreateTenantFails(s)
    \/ ServeMCP(presented)

SpecRequest == InitRequest /\ [][NextRequest]_vars

-----------------------------------------------------------------------------
(* Properties of the workflow ledger. *)

AllPairs == TenantIDs \X WorkflowIDs

LatestRows(t, w) == {r \in ConceptRows(t, w) : r.is_latest}

Versions(t, w) == {r.version : r \in ConceptRows(t, w)}

\* The committed row with version id i, as a set (empty if there is none).
RowByID(rows, i) == {r \in rows : r.id = i}

\* C1: in every committed state of the workflows table, whatever calls have
\* succeeded, failed or are still running, every (tenant_id, workflow_id)
\* that has a row has exactly one row with is_latest = true.
C1_ExactlyOneLatest ==
    \A p \in AllPairs :
        ConceptRows(p[1], p[2]) # {} => Cardinality(LatestRows(p[1], p[2])) = 1

\* A concept that was evolved, after a call lost the race for the latest flag.
C1_Witness ==
    /\ returned = "idx_workflows_latest_active"
    /\ \E p \in AllPairs : Cardinality(ConceptRows(p[1], p[2])) >= 2

\* C2: once all concurrent calls have completed, each (tenant_id, workflow_id)
\* has versions exactly 1..M without gap or duplicate, one latest row if it
\* has any, and no more rows over all than calls that reached their commit
\* (so M <= N): no two calls committed the same version or two latest rows.
C2_ContiguousVersions ==
    InFlight = {} =>
        /\ \A p \in AllPairs :
              LET rows == ConceptRows(p[1], p[2])
                  M == Cardinality(rows)
              IN  /\ Versions(p[1], p[2]) = 1..M
                  /\ \A a, b \in rows : a.version = b.version => a = b
                  /\ M >= 1 => Cardinality(LatestRows(p[1], p[2])) = 1
        /\ Cardinality(Committed) <= workflowsCreated

\* All calls are over, one of them lost a race on a unique index, and a
\* concept has reached version 2.
C2_Witness ==
    /\ InFlight = {}
    /\ returned \in {"idx_workflows_version", "idx_workflows_latest_active"}
    /\ \E p \in AllPairs : Versions(p[1], p[2]) = {1, 2}

\* C3: ListWorkflows for a tenant returns rows of that tenant with
\* is_latest = true only, one for each concept of the tenant that has a
\* version, and never two with the same workflow_id.
C3_ListLatestOnePerConcept ==
    \A t \in TenantIDs :
        LET list == ListWorkflows(t)
        IN  /\ \A r \in list : r.tenant_id = t /\ r.is_latest
            /\ \A a, b \in list : a.workflow_id = b.workflow_id => a = b
            /\ {r.workflow_id : r \in list} =
                   {r.workflow_id : r \in {x \in Committed : x.tenant_id = t}}

\* The repository test's scenario: after an evolve the list is the one row
\* of version 2.
C3_Witness ==
    \E t \in TenantIDs :
        /\ Cardinality(ListWorkflows(t)) = 1
        /\ \A r \in ListWorkflows(t) : r.version = 2
        /\ Cardinality({x \in Committed : x.tenant_id = t}) = 2

\* The step in which call s commits and returns nil.
Succeeds(s) == calls[s].pc = "commit" /\ calls'[s].pc = "idle" /\ returned' = ""

\* C4: a CreateWorkflow that succeeds hands back version 1 for a pair without
\* rows and the previous maximum plus one otherwise, with is_latest = true,
\* whatever Version and IsLatest the caller passed; its row is stored so, and
\* the row that was latest before is no longer latest.
C4_VersionIsMaxPlusOne ==
    [][\A s \in Slots : Succeeds(s) =>
          LET wf == calls[s].wf
              before == ConceptRows(wf.TenantID, wf.WorkflowID)
              after == {r \in Committed' : /\ r.tenant_id = wf.TenantID
                                           /\ r.workflow_id = wf.WorkflowID}
          IN  /\ wf.IsLatest
              /\ wf.Version = IF before = {} THEN 1
                              ELSE SetMax({r.version : r \in before}) + 1
              /\ \E n \in after : /\ n.id = wf.ID
                                  /\ n.version = wf.Version
                                  /\ n.is_latest
              /\ \A r \in before : \A q \in RowByID(after, r.id) : ~q.is_latest
    ]_vars

\* A concept created and then evolved: version 1 retired, version 2 latest.
C4_Witness ==
    /\ returned = ""
    /\ \E p \in AllPairs :
          /\ Versions(p[1], p[2]) = {1, 2}
          /\ \A r \in ConceptRows(p[1], p[2]) : r.is_latest <=> r.version = 2

\* The tenant on whose behalf a step is taken (a call that begins has its
\* tenant only after the step).
ActsFor(s, t) ==
    /\ calls'[s] # calls[s]
    /\ t = IF calls[s].pc = "idle" THEN calls'[s].wf.TenantID ELSE calls[s].wf.TenantID

\* C5: ListWorkflows under a tenant returns rows of that tenant only, a
\* tenant that never created a workflow lists empty, and no step of a call
\* made for another tenant changes what a tenant lists.
C5_TenantIsolation ==
    /\ [](\A t \in CtxTenants \ {""} : \A r \in ListWorkflows(t) : r.tenant_id = t)
    /\ [](ListWorkflows("tenant-c") = {})
    /\ [][\A t \in CtxTenants \ {""} :
             (\A s \in Slots : ~ActsFor(s, t)) => ListWorkflows(t)' = ListWorkflows(t)
       ]_vars

\* Two tenants each list a workflow of theirs, one of them an evolved one,
\* and the tenant without workflows lists nothing.
C5_Witness ==
    /\ \A t \in TenantIDs : ListWorkflows(t) # {}
    /\ \E t \in TenantIDs : \E r \in ListWorkflows(t) : r.version = 2
    /\ ListWorkflows("tenant-c") = {}

\* C6: versions are append-only. Every committed row stays, with all its
\* fields but is_latest as they were; is_latest only goes from true to false,
\* on at most one row per step and only in the step that adds the one new row.
C6_AppendOnly ==
    [][LET flipped == {r \in Committed : \E q \in RowByID(Committed', r.id) :
                                            q.is_latest # r.is_latest}
           added == {q \in Committed' : RowByID(Committed, q.id) = {}}
       IN  /\ \A r \in Committed :
                 \E q \in Committed' :
                    /\ q.id = r.id
                    /\ q.tenant_id = r.tenant_id
                    /\ q.workflow_id = r.workflow_id
                    /\ q.version = r.version
                    /\ q.description = r.description
                    /\ q.is_latest => r.is_latest
           /\ Cardinality(added) <= 1
           /\ Cardinality(flipped) <= Cardinality(added)
    ]_vars

\* A retired version is still in the table, next to its successor.
C6_Witness ==
    \E a, b \in Committed :
        /\ a.tenant_id = b.tenant_id /\ a.workflow_id = b.workflow_id
        /\ a.version = 1 /\ ~a.is_latest
        /\ b.version = 2 /\ b.is_latest

\* What a reader of the table sees of its committed rows.
CommittedView ==
    {[id |-> r.id, tenant_id |-> r.tenant_id, workflow_id |-> r.workflow_id,
      version |-> r.version, is_latest |-> r.is_latest,
      description |-> r.description] : r \in Committed}

\* C14: CreateWorkflow is atomic. A step of a call that does not end it
\* with success (a failed begin, retire, max-version read, insert or commit
\* among them) leaves every committed row as it was, the latest one still
\* latest, and each concept with rows keeps exactly one latest row.
C14_FailureChangesNothing ==
    [][(\A s \in Slots : ~Succeeds(s)) =>
          /\ CommittedView' = CommittedView
          /\ \A p \in AllPairs :
                ConceptRows(p[1], p[2]) # {} =>
                    Cardinality({r \in CommittedView' : /\ r.tenant_id = p[1]
                                                        /\ r.workflow_id = p[2]
                                                        /\ r.is_latest}) = 1
    ]_vars

\* Both tenants have their version 1, and a third call, which retired one of
\* them and inserted a version 2, failed at its commit.
C14_Witness ==
    /\ returned = "commit"
    /\ InFlight = {}
    /\ workflowsCreated = 3
    /\ Cardinality(CommittedView) = 2
    /\ \A r \in CommittedView : r.version = 1 /\ r.is_latest

\* C15: a call that loses a race on a uniqueness constraint is retried
\* inside CreateWorkflow, so no call returns the constraint violation.
C15_LoserIsRetried ==
    returned \notin {"idx_workflows_version", "idx_workflows_latest_active"}

\* The rows of call s's tenant and workflow_id that its transaction sees.
OwnConceptRows(s) ==
    {r \in workflows : /\ r.xmin \in {0, s}
                       /\ r.tenant_id = calls[s].wf.TenantID
                       /\ r.workflow_id = calls[s].wf.WorkflowID}

\* C21: for a workflow_id without a row of the tenant the retire UPDATE
\* changes no row and the next version is 1, stored with is_latest = true
\* and with no committed row touched; otherwise the next version is the
\* maximum version of that tenant and workflow_id plus one.
C21_FirstVersionIsOne ==
    [][\A s \in Slots :
          /\ (/\ calls[s].pc = "retire"
              /\ calls'[s].pc \notin {"retire", "idle"}
              /\ OwnConceptRows(s) = {})
                => workflows' = workflows /\ calls'[s].pc = "maxver"
          /\ (calls[s].pc = "maxver" /\ calls'[s].pc = "insert")
                => calls'[s].nextVersion =
                      IF OwnConceptRows(s) = {} THEN 1
                      ELSE SetMax({r.version : r \in OwnConceptRows(s)}) + 1
          /\ (Succeeds(s) /\ ConceptRows(calls[s].wf.TenantID, calls[s].wf.WorkflowID) = {})
                => /\ calls[s].wf.Version = 1
                   /\ \E n \in Committed' : /\ n.id = calls[s].wf.ID
                                            /\ n.version = 1
                                            /\ n.is_latest
                   /\ CommittedView \subseteq CommittedView'
    ]_vars

\* One tenant's workflow is at version 2 while the other tenant's workflow
\* of the same workflow_id was created at version 1.
C21_Witness ==
    /\ returned = ""
    /\ Versions("default", "w1") = {1, 2}
    /\ Versions("tenant-a", "w1") = {1}
    /\ \A r \in ConceptRows("tenant-a", "w1") : r.is_latest

\* The call's workflow id is one PutWorkflow made: not one a caller passed.
Generated(wf) == wf.WorkflowID \notin WorkflowIDs

\* C22: a PutWorkflow without a workflow id makes a workflow id that no
\* row and no other call has, and its call, unless a statement or the
\* commit fails, stores version 1 with is_latest = true and leaves every
\* committed row as it was.
C22_NewConceptIsFresh ==
    [][\A s \in Slots :
          /\ (calls[s].pc = "idle" /\ calls'[s].pc # "idle") =>
                /\ calls'[s].wf.WorkflowID # ""
                /\ Generated(calls'[s].wf) =>
                      /\ \A r \in workflows : r.workflow_id # calls'[s].wf.WorkflowID
                      /\ \A q \in Slots \ {s} :
                            calls[q].wf.WorkflowID # calls'[s].wf.WorkflowID
          /\ (calls[s].pc # "idle" /\ calls'[s].pc = "idle" /\ Generated(calls[s].wf)) =>
                returned' \in {"", "fault", "commit"}
          /\ (Succeeds(s) /\ Generated(calls[s].wf)) =>
                /\ calls[s].wf.Version = 1
                /\ \E n \in Committed' : /\ n.id = calls[s].wf.ID
                                         /\ n.workflow_id = calls[s].wf.WorkflowID
                                         /\ n.version = 1
                                         /\ n.is_latest
                /\ CommittedView \subseteq CommittedView'
    ]_vars

\* Two workflows made without a workflow id stand next to a workflow that
\* was created under a workflow id the caller passed.
C22_Witness ==
    /\ returned = ""
    /\ \E a, b \in Committed :
          /\ Generated([WorkflowID |-> a.workflow_id])
          /\ Generated([WorkflowID |-> b.workflow_id])
          /\ a.workflow_id # b.workflow_id
          /\ a.version = 1 /\ a.is_latest /\ b.version = 1 /\ b.is_latest
    /\ \E c \in Committed : c.workflow_id = "w1"

C24_NoTransactionOutlivesCall ==
    \A s \in Slots :
        calls[s].pc = "idle" => \A r \in workflows : r.xmin # s /\ r.xmax # s

\* A call that had begun failed at a statement after the first version was
\* committed; the version is latest and unlocked, nothing else is stored.
C24_Witness ==
    /\ returned = "fault"
    /\ InFlight = {}
    /\ workflowsCreated = 1
    /\ Cardinality(workflows) = 1
    /\ \A r \in workflows : r.is_latest /\ r.xmin = 0 /\ r.xmax = 0

\* C34: in every committed state, for every (tenant_id, workflow_id) with
\* rows, the rows with is_latest = true are exactly the rows with the
\* highest version number of the pair.
C34_LatestIsHighestVersion ==
    \A p \in AllPairs :
        \A r \in ConceptRows(p[1], p[2]) :
            r.is_latest <=> r.version = SetMax(Versions(p[1], p[2]))

\* A workflow at its third version, the third one latest.
C34_Witness ==
    /\ InFlight = {}
    /\ \E p \in AllPairs :
          /\ Versions(p[1], p[2]) = {1, 2, 3}
          /\ \E r \in LatestRows(p[1], p[2]) : r.version = 3

\* The version the next evolve of workflow w by tenant t receives, going by
\* the committed rows.
NextFor(t, w) ==
    IF ConceptRows(t, w) = {} THEN 1 ELSE SetMax(Versions(t, w)) + 1

\* C35: version sequences are independent per tenant. A step of a call made
\* for another tenant leaves every row of a tenant as it is, is_latest
\* included, leaves the tenant's own calls as they are, and leaves the
\* version number the tenant's next evolve receives as it is.
C35_VersionsIndependentPerTenant ==
    [][\A t \in TenantIDs :
          (\A s \in Slots : ~ActsFor(s, t)) =>
              /\ {r \in workflows' : r.tenant_id = t} = {r \in workflows : r.tenant_id = t}
              /\ \A q \in Slots : calls[q].wf.TenantID = t => calls'[q] = calls[q]
              /\ \A w \in WorkflowIDs : NextFor(t, w)' = NextFor(t, w)
    ]_vars

\* One tenant's workflow has been evolved to version 2 while the workflow of
\* the same workflow id of tenant default stays at its version 1.
C35_Witness ==
    /\ InFlight = {}
    /\ Versions("tenant-a", "w1") = {1, 2}
    /\ Versions("default", "w1") = {1}
    /\ NextFor("default", "w1") = 2

\* C39: the workflows_created_total counter counts committed versions only:
\* it goes up only in the step in which a call commits and returns nil.
C39_CounterCountsCommitted ==
    [][workflowsCreated' # workflowsCreated => \E s \in Slots : Succeeds(s)]_vars

\* C32: without a tenant id in the request context ListWorkflows and Search
\* read no tenant's rows.
C32_NoTenantNoRows ==
    /\ ListWorkflows("") = {}
    /\ \A q \in Queries : Search("", Embed(q)) = <<>>

-----------------------------------------------------------------------------
(* Properties of the memory store. *)

\* The step in which the GiveFeedback call in slot s returns nil.
FeedbackApplied(s) ==
    /\ feedbacks[s].pc = "update"
    /\ feedbacks'[s].pc = "idle"
    /\ result' = "Feedback received"

\* C7: a feedback event never edits the stored memory in place: every row
\* stored before it is stored after it with the same content and confidence,
\* and the adjusted confidence is on a new row of the memory.
C7_FeedbackAddsVersion ==
    [][\A s \in Slots : FeedbackApplied(s) =>
          /\ \A m \in memories : m \in memories'
          /\ \E n \in memories' \ memories :
                /\ n.ID = feedbacks[s].memory.ID
                /\ n.Confidence = feedbacks[s].memory.Confidence
    ]_vars

\* C8: the version history of a memory reads back: for a memory on which k
\* feedback events were applied, each version number 1..k+1 is stored with
\* the confidence that was produced for it, in order.
C8_HistoryRoundTrip ==
    \A id \in DOMAIN produced :
        \A v \in 1..Len(produced[id]) :
            \E m \in Get(id) : m.Version = v /\ m.Confidence = produced[id][v]

\* The step in which the GiveFeedback call in slot s reads the memory.
FeedbackRead(s) == feedbacks[s].pc = "idle" /\ feedbacks'[s].pc = "update"

\* C16: memory operations are tenant-scoped: a GiveFeedback running under
\* one tenant neither reads nor updates a memory that another tenant's
\* request stored.
C16_FeedbackStaysInTenant ==
    [][\A s \in Slots :
          /\ FeedbackRead(s) =>
                owner[feedbacks'[s].memory.ID] = feedbacks'[s].tenant
          /\ FeedbackApplied(s) =>
                owner[feedbacks[s].memory.ID] = feedbacks[s].tenant
    ]_vars

\* C17: feedback events on one memory are applied in order, each on the
\* result of the one before: the version a call writes is one above the
\* version stored when it writes, never one above an older version.
C17_FeedbackOnCurrentVersion ==
    [][\A s \in Slots : FeedbackApplied(s) =>
          \A m \in Get(feedbacks[s].memory.ID) :
              feedbacks[s].memory.Version = m.Version + 1
    ]_vars

\* C19: when the embedding collaborator fails during Remember the error is
\* handed back and no row is stored: a failed remember leaves the memories
\* table as it was, and no stored memory has an empty embedding.
C19_NoMemoryWithoutEmbedding ==
    /\ [](\A m \in memories : m.Embedding # <<>>)
    /\ [][result' = "Failed to remember" => memories' = memories]_vars

\* A remember failed after another had stored a memory with its embedding.
C19_Witness ==
    /\ result = "Failed to remember"
    /\ \E m \in memories : m.Embedding = Embed(m.Content)

\* C20: give_feedback acknowledges at once: when "Feedback received" is
\* handed back the update it acknowledges is not applied to the store yet.
C20_AcknowledgedBeforeApplied ==
    [][\A s \in Slots : FeedbackApplied(s) => memories' = memories]_vars

\* C30: the confidence of every stored memory is within [0, 1] (0 to 10
\* tenths), whatever was remembered and whatever feedback was given.
C30_ConfidenceWithinUnitInterval ==
    \A m \in memories : m.Confidence \in 0..10

\* C31: what a recall hands back is at most 10 memories, every one of the
\* tenant of the caller's context, every one a row as it is stored now, and
\* no memory twice.
C31_SearchTopTenOfTenant ==
    LET found == recalled.memories
    IN  /\ Len(found) <= SearchLimit
        /\ \A i \in 1..Len(found) : found[i].TenantID = recalled.tenant
        /\ \A i \in 1..Len(found) : found[i] \in memories
        /\ \A i, j \in 1..Len(found) : found[i].ID = found[j].ID => i = j

\* C33: a remembered memory carries the tenant id of the request that stored
\* it; a recall in that tenant's context with the memory's text finds it,
\* and a recall in another tenant's context does not.
C33_RememberedUnderTenant ==
    \A m \in memories :
        /\ m.TenantID = owner[m.ID]
        /\ m \in Range(Search(owner[m.ID], m.Embedding))
        /\ \A t \in TenantIDs \ {owner[m.ID]} : m \notin Range(Search(t, m.Embedding))

\* C36: each successful GiveFeedback raises the stored version by one: a
\* memory on which k feedback calls succeeded, overlapping ones among them,
\* is stored with version 1 + k and with the confidence applied last.
C36_VersionCountsFeedback ==
    \A m \in memories :
        /\ m.Version = Len(produced[m.ID])
        /\ m.Confidence = produced[m.ID][Len(produced[m.ID])]

-----------------------------------------------------------------------------
(* Properties of tenant resolution. *)

\* C9: tenant resolution is idempotent. A domain never has two tenant rows;
\* a tenant row, once created, stays as it is and no second one is created
\* for its domain; and every resolution that succeeds passes on the id of
\* the one row of its domain, whether it created the row or found it.
C9_ResolutionIdempotent ==
    /\ [](\A t, u \in tenants : t.domain = u.domain => t = u)
    /\ [](response.status = 200 =>
            /\ Cardinality(GetTenantByDomain(response.domain)) = 1
            /\ \A t \in GetTenantByDomain(response.domain) : t.id = response.tenant_id)
    /\ [][/\ tenants \subseteq tenants'
          /\ \A n \in tenants' \ tenants : GetTenantByDomain(n.domain) = {}
       ]_vars

\* A domain was resolved, its tenant exists, and a request for the same
\* domain that found no tenant when it looked is about to insert one.
C9_Witness ==
    /\ response.status = 200
    /\ GetTenantByDomain(response.domain) # {}
    /\ \E s \in Slots : requests[s].pc = "create" /\ requests[s].domain = response.domain

\* C10: a request whose tenant insert meets the row another request has just
\* created for the domain succeeds with the id of that row: the uniqueness
\* violation is not answered as an error.
C10_UniqueViolationRefetched ==
    [][\A s \in Slots :
          (/\ requests[s].pc = "create"
           /\ requests'[s].pc = "idle"
           /\ DomainHits(requests[s].domain) # {}
           /\ response'.err # "fault")
          => /\ response'.status = 200
             /\ \E t \in GetTenantByDomain(requests[s].domain) : response'.tenant_id = t.id
    ]_vars

\* The tenant rows of the domain the request in slot s resolves.
RowsOfDomain(s) == {t \in tenants : t.domain = requests[s].domain}

\* C28: a tenant is created only when none exists for the domain. A lookup
\* that finds the tenant passes its id on and creates nothing; only a lookup
\* made while the domain has no tenant reports that none was found; and a
\* creation that succeeds adds one row, with name and domain the domain and
\* an id no tenant had, and passes that id on.
C28_CreateOnlyWhenMissing ==
    [][/\ \A s \in Slots :
             /\ (requests[s].pc = "lookup" /\ requests'[s].pc = "idle") =>
                   /\ tenants' = tenants
                   /\ \E t \in RowsOfDomain(s) :
                         response' = Response(200, requests[s].domain, t.id, "")
             /\ (/\ requests[s].pc = "lookup"
                 /\ requests'[s].pc = "create"
                 /\ requests'[s].err = "no rows") => RowsOfDomain(s) = {}
             /\ (/\ requests[s].pc = "create"
                 /\ requests'[s].pc = "idle"
                 /\ response'.status = 200) =>
                   /\ RowsOfDomain(s) = {}
                   /\ \E n \in tenants' \ tenants :
                         /\ tenants' = tenants \cup {n}
                         /\ n.name = requests[s].domain
                         /\ n.domain = requests[s].domain
                         /\ \A t \in tenants : t.id # n.id
                         /\ response' = Response(200, n.domain, n.id, "")
       /\ tenants' # tenants =>
             \E s \in Slots : requests[s].pc = "create" /\ requests'[s].pc = "idle"
    ]_vars

\* Two domains have their tenants, one was just passed on, and a request
\* of the other domain is about to look its tenant up.
C28_Witness ==
    /\ Cardinality(tenants) = 2
    /\ \A t \in tenants : t.name = t.domain
    /\ response.status = 200
    /\ response.domain = "other.org"
    /\ \E s \in Slots : requests[s].pc = "lookup" /\ requests[s].domain = "newco.io"

-----------------------------------------------------------------------------
(* Properties of the middleware, for one request followed through it. *)

\* The request carries a credential that its mode's verification accepts:
\* a signed, unexpired token, which in the session cookie must also be
\* issued for the server's own client id.
CredentialVerifies(req) ==
    \/ req.via = "bearer" /\ req.token.valid
    \/ req.via = "cookie" /\ req.token.valid /\ req.token.aud = ClientID

\* The email the middleware resolves for the presented request.
PrincipalEmail == IF auth.authBypass THEN BypassEmail ELSE presented.token.email

\* The presented token is signed and unexpired, names an email with a
\* domain, and was issued for another audience than the server's client id.
ForeignAudience ==
    /\ ~auth.authBypass
    /\ presented.token.valid
    /\ presented.token.aud # ClientID
    /\ Len(Split(presented.token.email)) = 2

\* C11: a validly signed, unexpired token for another audience than the
\* server's client id is accepted as an Authorization Bearer header (it is
\* never answered 401 or a redirect) and rejected as the id_token cookie
\* (it is answered 401 and never goes on to the tenant lookup).
C11_AudienceByMode ==
    ForeignAudience =>
        /\ presented.via = "bearer" => response.status \notin {401, 303}
        /\ presented.via = "cookie" =>
              /\ response.status \in {0, 401}
              /\ \A s \in Slots : requests[s].pc = "idle"

\* A bearer token for api://default has reached the next handler.
C11_Witness ==
    /\ ForeignAudience
    /\ presented.via = "bearer"
    /\ presented.token.aud = "api://default"
    /\ response.status = 200

\* The configuration asks for the bypass: a DEV environment, in any case of
\* the letters, and the DevModeBypass flag.
BypassConfigured == config.Environment \in {"dev", "DEV"} /\ config.DevModeBypass

\* C12: the bypass is active exactly when the environment is DEV and the
\* DevModeBypass flag is set; with either missing, a request goes on to the
\* tenant lookup or reaches the next handler only with a verified credential.
C12_BypassNeedsBothSettings ==
    /\ auth.authBypass <=> BypassConfigured
    /\ ~BypassConfigured =>
          /\ response.status = 200 => CredentialVerifies(presented)
          /\ \A s \in Slots : requests[s].pc # "idle" => CredentialVerifies(presented)

\* A development environment without the flag has turned away a request
\* that carries no verifiable credential.
C12_Witness ==
    /\ config.Environment = "dev"
    /\ ~config.DevModeBypass
    /\ ~CredentialVerifies(presented)
    /\ response.status \in {303, 401}

\* C13: a request to /mcp/* without an authenticated user never reaches the
\* MCP tool handlers.
C13_McpRequiresAuth == mcpReached => CredentialVerifies(presented)

\* C18: RequireAuth serves the next handler only for a verified credential
\* (or under the bypass) and with the id of an existing tenant of the
\* principal's domain under tenant_id; every other answer passes on nothing.
C18_NextOnlyWithTenant ==
    /\ response.status = 200 =>
          /\ auth.authBypass \/ CredentialVerifies(presented)
          /\ Len(Split(PrincipalEmail)) = 2
          /\ response.domain = Split(PrincipalEmail)[2]
          /\ response.tenant_id # ""
          /\ \E t \in tenants : t.id = response.tenant_id /\ t.domain = response.domain
    /\ response.status # 200 => response.tenant_id = ""

\* A session cookie was verified and the next handler served with the id of
\* the tenant of the email's domain.
C18_Witness ==
    /\ ~auth.authBypass
    /\ presented.via = "cookie"
    /\ response.status = 200
    /\ \E t \in tenants : t.id = response.tenant_id /\ t.domain = "newco.io"

\* C25: a request that fails authentication is not passed on and is
\* answered by its mode: a missing or invalid id_token cookie with the
\* redirect to /login, a bearer token that does not verify with the 401.
C25_FailureAnsweredByMode ==
    (~auth.authBypass /\ ~CredentialVerifies(presented)) =>
        /\ \A s \in Slots : requests[s].pc = "idle"
        /\ presented.via = "bearer" =>
              response \in {Response(0, "", "", ""), Response(401, "", "", InvalidToken)}
        /\ presented.via # "bearer" =>
              response \in {Response(0, "", "", ""), Response(303, "", "", Redirected)}

\* C26: in both trust modes a token that is expired or whose signature
\* does not verify is never accepted: the request is not passed on, and no
\* tenant is looked up or created for it.
C26_InvalidTokenNeverAccepted ==
    (/\ ~auth.authBypass
     /\ presented.via \in {"bearer", "cookie"}
     /\ ~presented.token.valid) =>
        /\ response.status \in {0, 401}
        /\ \A s \in Slots : requests[s].pc = "idle"
        /\ tenants = {}

\* A bearer token that does not verify, though its claims name the server's
\* client id and an email with a domain, was answered 401.
C26_Witness ==
    /\ ~auth.authBypass
    /\ presented.via = "bearer"
    /\ ~presented.token.valid
    /\ presented.token.aud = ClientID
    /\ presented.token.email = <<"a", "@", "newco.io">>
    /\ response = Response(401, "", "", InvalidToken)

\* C27: an email that does not split on "@" into exactly two parts ends the
\* request with the invalid-email answer: no tenant is looked up or created
\* and the request is not passed on.
C27_EmailNeedsTwoParts ==
    (~auth.authBypass /\ Len(Split(presented.token.email)) # 2) =>
        /\ response.status # 200
        /\ \A s \in Slots : requests[s].pc = "idle"
        /\ tenants = {}
        /\ CredentialVerifies(presented) =>
              response \in {Response(0, "", "", ""), Response(401, "", "", InvalidEmail)}

\* A verified token whose email has two "@" was answered with the
\* invalid-email error.
C27_Witness ==
    /\ ~auth.authBypass
    /\ CredentialVerifies(presented)
    /\ Len(Split(presented.token.email)) = 3
    /\ response = Response(401, "", "", InvalidEmail)

\* C29: under the bypass no credential is looked at: no request is turned
\* away as unauthenticated, every request is resolved for the domain
\* localhost, and every request passed on carries the id of the tenant of
\* localhost.
C29_BypassResolvesLocalhost ==
    auth.authBypass =>
        /\ response.status \notin {303, 401}
        /\ \A s \in Slots : requests[s].pc # "idle" => requests[s].domain = "localhost"
        /\ \A t \in tenants : t.domain = "localhost"
        /\ response.status = 200 =>
              /\ response.domain = "localhost"
              /\ \E t \in tenants : t.domain = "localhost" /\ t.id = response.tenant_id

\* Under the bypass a request with a token that does not verify was passed
\* on with the tenant of localhost.
C29_Witness ==
    /\ auth.authBypass
    /\ presented.via = "cookie"
    /\ ~presented.token.valid
    /\ response.status = 200
    /\ response.domain = "localhost"

-----------------------------------------------------------------------------
(* Properties of the login flow and of the seed program. *)

\* C37: the id_token session cookie is set only by a callback that is not
\* under the bypass, whose state parameter equals the oauthstate cookie the
\* login handler has set, whose exchange returned an ID token, and that
\* token is signed, unexpired and issued for this client; an answer with
\* an error status leaves the session cookie as it was.
C37_SessionCookieOnlyWhenVerified ==
    /\ [][/\ cookies'.id_token # cookies.id_token =>
                /\ ~auth.authBypass
                /\ answer'.handler = "callback"
                /\ answer'.status = 303
                /\ cookies.oauthstate # {}
                /\ answer'.cookie = cookies.oauthstate
                /\ answer'.cookie = {answer'.state}
                /\ answer'.exchange.err = ""
                /\ \E t \in answer'.exchange.id_token :
                      t.valid /\ t.aud = ClientID /\ cookies'.id_token = {t}
          /\ answer'.status \in {400, 401, 500} => cookies'.id_token = cookies.id_token
         ]_vars
    /\ [](\A t \in cookies.id_token : cookies.oauthstate # {} /\ t.valid /\ t.aud = ClientID)

C37_Witness ==
    /\ cookies.id_token # {}
    /\ answer.handler = "callback"
    /\ answer.status = 303
    /\ answer.cookie = {answer.state}

\* The committed rows of the seed workflow called name.
SeedRows(name) == {r \in Committed : r.name = name}

\* C38: whatever runs of the seed program came before, there is at most one
\* tenant for localhost and every seed name has at most one concept, with
\* version 1 only; after a run that went through without an error there is
\* exactly one tenant and, under it, exactly one concept per seed name.
C38_SeedingIdempotent ==
    /\ Cardinality(GetTenantByDomain(SeedDomain)) <= 1
    /\ \A name \in SeedNames :
          /\ Cardinality(SeedRows(name)) <= 1
          /\ \A r \in SeedRows(name) :
                /\ r.version = 1
                /\ r.is_latest
                /\ \E t \in GetTenantByDomain(SeedDomain) : r.tenant_id = t.id
    /\ seed.outcome = "complete" =>
          /\ Cardinality(GetTenantByDomain(SeedDomain)) = 1
          /\ \A name \in SeedNames : Cardinality(SeedRows(name)) = 1

\* A run that found every seed workflow in place and skipped each.
C38_Witness ==
    /\ seed.pc = "loop"
    /\ seed.i = Len(SeedWorkflows) + 1
    /\ seed.existing = SeedNames
    /\ seed.outcome = "running"
    /\ \A name \in SeedNames : Cardinality(SeedRows(name)) = 1


=============================================================================
